---- MODULE Spec2Model ----
(***************************************************************************)
(* A model of the instagram-scraper library: the InstagramSession          *)
(* (launch / authenticate / getUser / getPost), the User entity            *)
(* (loadInfo / reload / getters, and the earlier getInfo / clearCache)     *)
(* and the count parser cleanNum.                                          *)
(*                                                                         *)
(* Strings that the code parses are sequences of one-character strings.    *)
(* Values that may be null or undefined are tagged records, so that a      *)
(* string, null and undefined can be compared with each other.             *)
(***************************************************************************)
EXTENDS Integers, Sequences, FiniteSets, TLC

\* ------------------------------------------------------------------ bounds

\* longest count string given to cleanNum in SpecNum
MaxLen == 3

\* loadInfo / getInfo calls that may be in flight on one entity
MaxTasks == 2

\* reload() calls on one entity
MaxReloads == 1

\* header anchors of a generated document in SpecExtract
MaxAnchors == 2

\* ------------------------------------------------- optional (nullable) values

Null == [t |-> "null"]

Undefined == [t |-> "undefined"]

Str(s) == [t |-> "string", s |-> s]

\* JavaScript's `!num` for a value of type string | null | undefined
Falsy(num) == num.t # "string" \/ num.s = <<>>

\* a ?? b
Coalesce(a, b) == IF a.t = "string" THEN a ELSE b

\* ------------------------------------------------------------ cleanNum

Digits == {"0", "1", "2", "3", "4", "5", "6", "7", "8", "9"}

DigitVal(c) ==
    CASE c = "0" -> 0 [] c = "1" -> 1 [] c = "2" -> 2 [] c = "3" -> 3
      [] c = "4" -> 4 [] c = "5" -> 5 [] c = "6" -> 6 [] c = "7" -> 7
      [] c = "8" -> 8 [] c = "9" -> 9

\* String.prototype.replace(/,/g, "")
RECURSIVE replaceCommas(_)
replaceCommas(s) ==
    IF s = <<>> THEN <<>>
    ELSE IF Head(s) = "," THEN replaceCommas(Tail(s))
    ELSE <<Head(s)>> \o replaceCommas(Tail(s))

RECURSIVE trimStart(_)
trimStart(s) ==
    IF s # <<>> /\ Head(s) = " " THEN trimStart(Tail(s)) ELSE s

RECURSIVE trimEnd(_)
trimEnd(s) ==
    IF s # <<>> /\ s[Len(s)] = " " THEN trimEnd(SubSeq(s, 1, Len(s) - 1)) ELSE s

\* String.prototype.trim()
trim(s) == trimEnd(trimStart(s))

\* the longest prefix of s made of decimal digits
RECURSIVE digitPrefix(_)
digitPrefix(s) ==
    IF s # <<>> /\ Head(s) \in Digits
    THEN <<Head(s)>> \o digitPrefix(Tail(s))
    ELSE <<>>

RECURSIVE digitsValue(_)
digitsValue(ds) ==
    IF ds = <<>> THEN 0
    ELSE 10 * digitsValue(SubSeq(ds, 1, Len(ds) - 1)) + DigitVal(ds[Len(ds)])

\* parseInt(s) with no radix: leading white space is skipped, one sign is
\* accepted, then the longest run of decimal digits is read; NaN when that
\* run is empty.
parseInt(s) ==
    LET t == trimStart(s)
        signed == t # <<>> /\ Head(t) \in {"-", "+"}
        body == IF signed THEN Tail(t) ELSE t
        ds == digitPrefix(body)
        sign == IF signed /\ Head(t) = "-" THEN -1 ELSE 1
    IN  IF ds = <<>> THEN [nan |-> TRUE, v |-> 0]
        ELSE [nan |-> FALSE, v |-> sign * digitsValue(ds)]

\* n || -1 : NaN and 0 are both falsy
OrMinusOne(n) == IF n.nan \/ n.v = 0 THEN -1 ELSE n.v

OrZero(n) == IF n.nan \/ n.v = 0 THEN 0 ELSE n.v

cleanNumOrZero(num) ==
    IF Falsy(num) THEN -1
    ELSE OrZero(parseInt(trim(replaceCommas(num.s))))

\* User.cleanNum
cleanNum(num) ==
    IF Falsy(num) THEN -1
    ELSE OrMinusOne(parseInt(trim(replaceCommas(num.s))))

\* whether cleanNum raises: past the `!num` guard it calls num.replace, which
\* is a TypeError on null and undefined
cleanNumRaises(num) ==
    IF Falsy(num) THEN FALSE ELSE num.t # "string"

\* ------------------------------------------------------------ the document
\* A rendered profile page, as far as the selectors of loadInfo can tell:
\*   h2       text of `header h2` (Null when there is none)
\*   img      src of `header img[alt$="profile picture"]` (Null when none)
\*   verified whether `header svg[aria-label="Verified"]` exists
\*   tablist  whether `main div[role="tablist"]` exists
\*   spans    the `header span` elements in document order
\*   bio      `header div[role="button"] span[dir="auto"]` (Null when none)
\*   anchors  the `header a` elements in document order
\* A span is [dir, inH2, inA, kid, text, sibs, last, first]: it has
\* dir="auto", lies in an h2, lies in an a, contains a span, its textContent
\* (words separated by single spaces), its parent's childElementCount, the
\* textContent of its parent's lastChild and of its own firstChild.
\* An anchor is [href, text, title, inner]: href split at "/", textContent,
\* the title of its first `span[title]` descendant and the textContent of its
\* first `span span` descendant (Undefined when there is none).

\* Array.prototype.find / querySelector: index of the first match, 0 if none
\* (hits[i] tells whether element i matches)
FirstIdx(hits) ==
    IF \E i \in DOMAIN hits : hits[i]
    THEN CHOOSE i \in DOMAIN hits : hits[i] /\ \A j \in 1..(i - 1) : ~hits[j]
    ELSE 0

\* textContent.includes(word), the word standing anywhere in the text
Includes(text, word) == \E i \in DOMAIN text : text[i] = word

\* textContent.includes(" " + word), the word preceded by a space
IncludesSpaced(text, word) == \E i \in 2..Len(text) : text[i] = word

\* a[href="#"]
HrefIsPlaceholder(a) == a.href = <<"#">>

\* a[href$="/<last>/"]
HrefEndsWith(a, last) ==
    /\ Len(a.href) >= 3
    /\ a.href[Len(a.href)] = ""
    /\ a.href[Len(a.href) - 1] = last

\* the display-name candidate test of loadInfo
IsNameEl(span) ==
    /\ span.dir
    /\ ~span.inH2
    /\ ~span.inA
    /\ ~span.kid
    /\ ~IncludesSpaced(span.text, "posts")

\* the post-count span test of loadInfo
IsPostEl(span) ==
    /\ Includes(span.text, "posts")
    /\ ~span.inA
    /\ span.kid

\* words of a text joined by single spaces
RECURSIVE JoinWords(_)
JoinWords(text) ==
    IF text = <<>> THEN ""
    ELSE IF Len(text) = 1 THEN text[1]
    ELSE text[1] \o " " \o JoinWords(Tail(text))

\* document.querySelectorAll('main div[role="tablist"]').length == 0
isPrivate(doc) == ~doc.tablist

\* Node.cloneNode(true): a detached subtree with the same content
cloneNode(el) == el

\* clone.querySelectorAll("a").forEach(a => a.replaceWith(text(a.textContent)))
replaceAnchors(el) ==
    [el EXCEPT !.kids = [i \in DOMAIN el.kids |->
        IF el.kids[i].tag = "a"
        THEN [tag |-> "#text", text |-> el.kids[i].text]
        ELSE el.kids[i]]]

\* clone.querySelectorAll("br").forEach(br => br.replaceWith(text("\n")))
replaceBreaks(el) ==
    [el EXCEPT !.kids = [i \in DOMAIN el.kids |->
        IF el.kids[i].tag = "br"
        THEN [tag |-> "#text", text |-> "\n"]
        ELSE el.kids[i]]]

\* Node.textContent of an element: the texts of its children, concatenated
RECURSIVE concatText(_)
concatText(kids) ==
    IF kids = <<>> THEN "" ELSE Head(kids).text \o concatText(Tail(kids))

textContent(el) == concatText(el.kids)

\* the bio computed on the live element: the links and breaks of the page are
\* rewritten and remove() takes the bio out of the document
sanitizeBioInPlace(doc) ==
    IF doc.bio = Null THEN [bio |-> Null, doc |-> doc]
    ELSE [bio |-> Str(textContent(replaceBreaks(replaceAnchors(doc.bio)))),
          doc |-> [doc EXCEPT !.bio = Null]]

\* the bio of loadInfo: computed on a clone, which remove() leaves detached;
\* the result is the text and the document after the computation
sanitizeBio(doc) ==
    IF doc.bio = Null THEN [bio |-> Null, doc |-> doc]
    ELSE LET clone == cloneNode(doc.bio)
         IN  [bio |-> Str(textContent(replaceBreaks(replaceAnchors(clone)))),
              doc |-> doc]

\* follower anchor chosen without looking at the privacy flag
followerAnchorPublicOnly(doc) ==
    FirstIdx([i \in DOMAIN doc.anchors |-> HrefEndsWith(doc.anchors[i], "followers")])

\* index of the follower anchor of loadInfo, 0 when there is none
followerAnchor(doc) ==
    IF isPrivate(doc)
    THEN FirstIdx([i \in DOMAIN doc.anchors |->
                     /\ HrefIsPlaceholder(doc.anchors[i])
                     /\ Includes(doc.anchors[i].text, "followers")])
    ELSE FirstIdx([i \in DOMAIN doc.anchors |->
                     HrefEndsWith(doc.anchors[i], "followers")])

\* index of the following anchor of loadInfo, 0 when there is none
followingAnchor(doc) ==
    IF isPrivate(doc)
    THEN FirstIdx([i \in DOMAIN doc.anchors |->
                     /\ HrefIsPlaceholder(doc.anchors[i])
                     /\ Includes(doc.anchors[i].text, "following")])
    ELSE FirstIdx([i \in DOMAIN doc.anchors |->
                     HrefEndsWith(doc.anchors[i], "following")])

\* the function loadInfo passes to page.evaluate: the raw fields it returns
\* and the document it leaves
evaluate(doc) ==
    LET nameIdx == FirstIdx([i \in DOMAIN doc.spans |-> IsNameEl(doc.spans[i])])
        pronouns ==
            IF nameIdx # 0 /\ doc.spans[nameIdx].sibs = 2
            THEN Coalesce(doc.spans[nameIdx].last, Null)
            ELSE Null
        b == sanitizeBio(doc)
        postIdx == FirstIdx([i \in DOMAIN doc.spans |-> IsPostEl(doc.spans[i])])
        fr == followerAnchor(doc)
        fg == followingAnchor(doc)
    IN  [raw |->
           [username |-> Coalesce(doc.h2, Null),
            name |-> IF nameIdx # 0
                     THEN Str(JoinWords(doc.spans[nameIdx].text)) ELSE Null,
            private |-> isPrivate(doc),
            verified |-> doc.verified,
            avatarUrl |-> Coalesce(doc.img, Str("")),
            bio |-> b.bio,
            pronouns |-> pronouns,
            postText |-> IF postIdx # 0
                         THEN Coalesce(doc.spans[postIdx].first, Null) ELSE Null,
            followerText |-> IF fr # 0 THEN doc.anchors[fr].title ELSE Undefined,
            followingText |-> IF fg # 0 THEN doc.anchors[fg].inner ELSE Undefined],
         doc |-> b.doc]

\* the record assembled without the fallback to the constructor's username
makeInfoNoFallback(raw, username) ==
    [username |-> raw.username,
     name |-> raw.name,
     private |-> raw.private,
     verified |-> raw.verified,
     avatarUrl |-> raw.avatarUrl,
     bio |-> raw.bio,
     pronouns |-> raw.pronouns,
     posts |-> cleanNum(raw.postText),
     followers |-> cleanNum(raw.followerText),
     following |-> cleanNum(raw.followingText)]

\* the record loadInfo assigns to this.info
makeInfo(raw, username) ==
    [username |-> Coalesce(raw.username, Str(username)),
     name |-> raw.name,
     private |-> raw.private,
     verified |-> raw.verified,
     avatarUrl |-> raw.avatarUrl,
     bio |-> raw.bio,
     pronouns |-> raw.pronouns,
     posts |-> cleanNum(raw.postText),
     followers |-> cleanNum(raw.followerText),
     following |-> cleanNum(raw.followingText)]

\* ------------------------------------------------------------ fixtures

Chars(str) ==
    CASE str = "1,234" -> <<"1", ",", "2", "3", "4">>
      [] str = "5,678" -> <<"5", ",", "6", "7", "8">>
      [] str = "42" -> <<"4", "2">>
      [] str = "10" -> <<"1", "0">>
      [] str = "3" -> <<"3">>
      [] str = "0" -> <<"0">>
      [] str = "7" -> <<"7">>
      [] str = "99" -> <<"9", "9">>

Span(dir, inH2, inA, kid, text, sibs, last, first) ==
    [dir |-> dir, inH2 |-> inH2, inA |-> inA, kid |-> kid, text |-> text,
     sibs |-> sibs, last |-> last, first |-> first]

Anchor(href, text, title, inner) ==
    [href |-> href, text |-> text, title |-> title, inner |-> inner]

\* a public account: posts "1,234", /followers/ link titled "5,678",
\* /following/ link with nested text "42"; the bio holds a link and a break
PublicDoc ==
    [h2 |-> Str("alice"), img |-> Str("https://cdn/alice.jpg"),
     verified |-> TRUE, tablist |-> TRUE,
     spans |-> <<
        Span(TRUE, TRUE, FALSE, FALSE, <<"alice">>, 1, Str("alice"), Str("alice")),
        Span(TRUE, FALSE, FALSE, FALSE, <<"Alice", "A">>, 2, Str("she/her"),
             Str("Alice A")),
        Span(FALSE, FALSE, FALSE, TRUE, <<"1,234", "posts">>, 1,
             Str("1,234 posts"), Str(Chars("1,234"))),
        Span(TRUE, FALSE, TRUE, TRUE, <<"5,678", "followers">>, 1,
             Str("5,678 followers"), Str(Chars("5,678")))>>,
     bio |-> [t |-> "element", kids |-> <<
        [tag |-> "a", text |-> "click"], [tag |-> "#text", text |-> " here"],
        [tag |-> "br", text |-> ""], [tag |-> "#text", text |-> "bye"]>>],
     anchors |-> <<
        Anchor(<<"", "alice", "followers", "">>, <<"5,678", "followers">>,
               Str(Chars("5,678")), Str(Chars("5,678"))),
        Anchor(<<"", "alice", "following", "">>, <<"42", "following">>,
               Undefined, Str(Chars("42"))),
        Anchor(<<"#">>, <<"7", "followers">>, Str(Chars("7")), Str(Chars("7")))>>]

\* a private account of no posts: no tablist, no h2, placeholder anchors
\* "10 followers" / "3 following", and a stray /followers/ link
PrivateDoc ==
    [h2 |-> Null, img |-> Str("https://cdn/priv.jpg"),
     verified |-> FALSE, tablist |-> FALSE,
     spans |-> <<
        Span(FALSE, FALSE, FALSE, TRUE, <<"0", "posts">>, 1, Str("0 posts"),
             Str(Chars("0")))>>,
     bio |-> Null,
     anchors |-> <<
        Anchor(<<"", "bob", "followers", "">>, <<"99", "followers">>,
               Str(Chars("99")), Str(Chars("99"))),
        Anchor(<<"#">>, <<"10", "followers">>, Str(Chars("10")), Str(Chars("10"))),
        Anchor(<<"#">>, <<"3", "following">>, Undefined, Str(Chars("3")))>>]

\* a page that never renders the profile header (login wall, error page)
BlankDoc ==
    [h2 |-> Null, img |-> Null, verified |-> FALSE, tablist |-> FALSE,
     spans |-> <<>>, bio |-> Null, anchors |-> <<>>]

\* the documents a navigation of a profile page may produce
Docs == {PublicDoc, PrivateDoc, BlankDoc}

\* the login page as authenticate sees it: whether input[name="email"],
\* input[name="pass"] and the "Log in" button render, and whether the click
\* leads to a navigation that settles
LoginDocs == [email : BOOLEAN, pass : BOOLEAN, button : BOOLEAN, nav : BOOLEAN]

Usernames == {"alice", "bob"}

\* ------------------------------------------------------------ state

VARIABLES
    browser,        \* InstagramSession.browser != null
    authenticated,  \* InstagramSession.authenticated
    launchPc,       \* where the launch() / authenticate() call stands
    loginDoc,       \* the login page of the running authenticate()
    getUserPc,      \* where the getUser() call stands
    getUserRet,     \* how the last getUser() call ended
    getPostPc,      \* where the getPost() call stands
    getPostRet,     \* how the last getPost() call ended
    userState,      \* the User entity: "none", "made", "live", "lost"
    username,       \* User.username
    doc,            \* the document of User.page
    gen,            \* how often User.page was reloaded
    reloading,      \* a page.reload() of User.reload is pending
    info,           \* User.info
    infoGen,        \* history: the page generation info was extracted from
    task,           \* the loadInfo / getInfo calls in flight
    cleared,        \* history: "cleared" after clearCache(), "rerun" once getInfo
                    \* was called after it, "no" once a record is stored
    numIn,          \* SpecNum: the argument of cleanNum
    numOut,         \* SpecNum: the value cleanNum returned
    numPc           \* SpecNum: "called", then "returned" or "threw"

sessionVars == <<browser, authenticated, launchPc, loginDoc>>

callVars == <<getUserPc, getUserRet, getPostPc, getPostRet>>

userVars == <<userState, username, doc, gen, reloading, info, infoGen, task, cleared>>

numVars == <<numIn, numOut, numPc>>

vars == <<sessionVars, callVars, userVars, numVars>>

Tasks == 1..MaxTasks

IdleTask == [pc |-> "idle", by |-> "none", raw |-> Null, gen |-> 0]

\* a call that has not settled
InFlight(t) == task[t].pc \in {"wait", "eval", "got"}

NumInFlight == Cardinality({t \in Tasks : InFlight(t)})

\* the slot a new call takes
FreeSlot == CHOOSE t \in Tasks : ~InFlight(t) /\ \A s \in 1..(t - 1) : InFlight(s)

\* ------------------------------------------------------------ InstagramSession

\* InstagramSession.isInit
isInit == browser

\* the guard of getUser as first written, `!this.isInit() || !this.authenticate`:
\* the method authenticate is always truthy
unavailableByMethod == ~isInit

\* the guard of getUser and getPost: `!this.isInit() || !this.authenticated`
unavailable == ~isInit \/ ~authenticated

\* InstagramSession.launch up to its first await: puppeteer.launch is pending
launch ==
    /\ launchPc \in {"idle", "failed", "returned"}
    /\ launchPc' = "launching"
    /\ UNCHANGED <<browser, authenticated, loginDoc, callVars, userVars, numVars>>

\* InstagramSession.launch called again on a session whose launch has
\* completed: a new browser is started and the login runs again
relaunch ==
    /\ launchPc = "done"
    /\ launchPc' = "launching"
    /\ UNCHANGED <<browser, authenticated, loginDoc, callVars, userVars, numVars>>

\* puppeteer.launch resolved: the browser is stored and authenticate() begins;
\* authenticate returns at once when the browser is not set, and otherwise
\* opens the login page
LaunchResolved ==
    /\ launchPc = "launching"
    /\ browser' = TRUE
    /\ launchPc' = IF browser' THEN "loginPage" ELSE "done"
    /\ UNCHANGED <<authenticated, loginDoc, callVars, userVars, numVars>>

\* authenticate entered with no test of the browser
authenticateEntryUnguarded == "loginPage"

\* where authenticate goes from its first line: `if (!this.isInit()) return;`,
\* else this.page(login url)
authenticateEntry == IF ~isInit THEN "returned" ELSE "loginPage"

\* InstagramSession.authenticate called on its own (the method was public as
\* first written and `private` does not exist at run time), up to its first
\* await
authenticate ==
    /\ launchPc \in {"idle", "failed", "done", "returned"}
    /\ launchPc' = authenticateEntry
    /\ UNCHANGED <<browser, authenticated, loginDoc, callVars, userVars, numVars>>

\* authenticate: this.page(login url) resolved, waitForSelector(email) issued
LoginPageReady ==
    /\ launchPc = "loginPage"
    /\ \E d \in LoginDocs : loginDoc' = d
    /\ launchPc' = "emailWait"
    /\ UNCHANGED <<browser, authenticated, callVars, userVars, numVars>>

\* authenticate: the email field appeared; email and password are typed
\* (page.type raises when the password field is missing) and the wait for the
\* login button is issued. Without the email field the wait times out.
EmailWaitDone ==
    /\ launchPc = "emailWait"
    /\ launchPc' = IF loginDoc.email /\ loginDoc.pass THEN "loginWait" ELSE "failed"
    /\ UNCHANGED <<browser, authenticated, loginDoc, callVars, userVars, numVars>>

\* authenticate: the login button appeared and is clicked, waitForNavigation
\* is issued; without the button the wait times out
LoginWaitDone ==
    /\ launchPc = "loginWait"
    /\ launchPc' = IF loginDoc.button THEN "nav" ELSE "failed"
    /\ UNCHANGED <<browser, authenticated, loginDoc, callVars, userVars, numVars>>

\* authenticate: the navigation settled and page.close() is issued, or the
\* navigation timed out
NavigationDone ==
    /\ launchPc = "nav"
    /\ launchPc' = IF loginDoc.nav THEN "closing" ELSE "failed"
    /\ UNCHANGED <<browser, authenticated, loginDoc, callVars, userVars, numVars>>

\* authenticate: the login page closed, the flag is set
LoginPageClosed ==
    /\ launchPc = "closing"
    /\ authenticated' = TRUE
    /\ launchPc' = "done"
    /\ UNCHANGED <<browser, loginDoc, callVars, userVars, numVars>>

\* the methods class Post defines
PostMethods == {"close"}

\* how `await post.load()` of getPost ends: calling a method the class does
\* not define is a TypeError
postLoad == IF "load" \in PostMethods THEN "post" ELSE "threw"

\* InstagramSession.getPost up to its first await: null when unavailable,
\* else this.page(post url) is pending
getPost ==
    /\ getPostPc = "idle"
    /\ IF unavailable
       THEN getPostRet' = "null" /\ getPostPc' = "idle"
       ELSE getPostRet' = "none" /\ getPostPc' = "page"
    /\ UNCHANGED <<sessionVars, getUserPc, getUserRet, userVars, numVars>>

\* getPost: the page opened; new Post(post_id, page), then post.load()
GetPostPageReady ==
    /\ getPostPc = "page"
    /\ getPostPc' = "idle"
    /\ getPostRet' = postLoad
    /\ UNCHANGED <<sessionVars, getUserPc, getUserRet, userVars, numVars>>

\* ------------------------------------------------------------ User

\* the start of a loadInfo / getInfo body: waitForSelector(avatar) is issued
StartTask(by) ==
    task' = [task EXCEPT ![FreeSlot] =
                [pc |-> "wait", by |-> by, raw |-> Null, gen |-> 0]]

\* InstagramSession.getUser up to its first await: null when unavailable,
\* else this.page(profile url) is pending. One entity is followed: a new one
\* is asked for only while none is held.
getUser(u) ==
    /\ getUserPc = "idle"
    /\ IF unavailable
       THEN /\ getUserRet' = "null"
            /\ UNCHANGED <<getUserPc, userState, username>>
       ELSE /\ userState \in {"none", "lost"}
            /\ getUserRet' = "none"
            /\ getUserPc' = "page"
            /\ userState' = "none"
            /\ username' = u
    /\ UNCHANGED <<sessionVars, getPostPc, getPostRet, doc, gen, reloading, info,
                   infoGen, task, cleared, numVars>>

\* getUser: the page opened; new User(username, page) and its loadInfo()
\* begins, which getUser awaits
GetUserPageReady ==
    /\ getUserPc = "page"
    /\ \E d \in Docs : doc' = d
    /\ gen' = 0
    /\ reloading' = FALSE
    /\ info' = Undefined
    /\ infoGen' = 0
    /\ userState' = "made"
    /\ task' = [t \in Tasks |->
                  IF t = 1 THEN [pc |-> "wait", by |-> "getUser", raw |-> Null, gen |-> 0]
                  ELSE IdleTask]
    /\ getUserPc' = "load"
    /\ UNCHANGED <<sessionVars, getUserRet, getPostPc, getPostRet, username, cleared,
                   numVars>>

\* User.loadInfo called by the holder of the entity: it starts with the wait,
\* whatever this.info holds
loadInfo ==
    /\ userState = "live"
    /\ NumInFlight + (IF reloading THEN 1 ELSE 0) < MaxTasks
    /\ StartTask("caller")
    /\ UNCHANGED <<sessionVars, callVars, userState, username, doc, gen, reloading,
                   info, infoGen, cleared, numVars>>

\* waitForSelector resolved: the avatar is in the document; page.evaluate
\* is issued
WaitResolved(t) ==
    /\ task[t].pc = "wait"
    /\ ~reloading
    /\ doc.img # Null
    /\ task' = [task EXCEPT ![t].pc = "eval"]
    /\ UNCHANGED <<sessionVars, callVars, userState, username, doc, gen, reloading,
                   info, infoGen, cleared, numVars>>

\* waitForSelector timed out: the call rejects; a getUser awaiting it rejects
\* too and its entity is never handed out
WaitTimedOut(t) ==
    /\ task[t].pc = "wait"
    /\ reloading \/ doc.img = Null
    /\ task' = [task EXCEPT ![t].pc = "timeout"]
    /\ IF task[t].by = "getUser"
       THEN getUserPc' = "idle" /\ getUserRet' = "threw" /\ userState' = "lost"
       ELSE UNCHANGED <<getUserPc, getUserRet, userState>>
    /\ UNCHANGED <<sessionVars, getPostPc, getPostRet, username, doc, gen, reloading,
                   info, infoGen, cleared, numVars>>

\* the function given to page.evaluate ran in the page; its result is on its
\* way back
EvalReturned(t) ==
    /\ task[t].pc = "eval"
    /\ ~reloading
    /\ LET r == evaluate(doc)
       IN  /\ task' = [task EXCEPT ![t].pc = "got", ![t].raw = r.raw, ![t].gen = gen]
           /\ doc' = r.doc
    /\ UNCHANGED <<sessionVars, callVars, userState, username, gen, reloading, info,
                   infoGen, cleared, numVars>>

\* the rest of loadInfo / getInfo: this.info = {...}; a getUser awaiting the
\* call returns the entity
Assign(t) ==
    /\ task[t].pc = "got"
    /\ info' = makeInfo(task[t].raw, username)
    /\ infoGen' = task[t].gen
    /\ cleared' = "no"
    /\ task' = [task EXCEPT ![t].pc = "ok", ![t].raw = Null, ![t].gen = 0]
    /\ IF task[t].by = "getUser"
       THEN getUserPc' = "idle" /\ getUserRet' = "user" /\ userState' = "live"
       ELSE UNCHANGED <<getUserPc, getUserRet, userState>>
    /\ UNCHANGED <<sessionVars, getPostPc, getPostRet, username, doc, gen, reloading,
                   numVars>>

\* User.reload up to its await: page.reload() is pending
reload ==
    /\ userState = "live"
    /\ ~reloading
    /\ gen < MaxReloads
    /\ NumInFlight < MaxTasks
    /\ reloading' = TRUE
    /\ UNCHANGED <<sessionVars, callVars, userState, username, doc, gen, info,
                   infoGen, task, cleared, numVars>>

\* User.reload: the page reloaded; this.loadInfo() is started and not awaited
ReloadSettled ==
    /\ reloading
    /\ \E d \in Docs : doc' = d
    /\ gen' = gen + 1
    /\ reloading' = FALSE
    /\ StartTask("reload")
    /\ UNCHANGED <<sessionVars, callVars, userState, username, info, infoGen,
                   cleared, numVars>>

\* the getters of User: this.info?.<field>
getUsername == IF info = Undefined THEN Undefined ELSE info.username

getFollowerCount == IF info = Undefined THEN Undefined ELSE info.followers

\* ------------------------------------------------------------ User, as first written

\* getInfo's test `this.info != null`
isCached == info # Null /\ info # Undefined

\* a clearCache that leaves the record in place
infoKept == info

\* what clearCache assigns to this.info
infoCleared == Null

\* User.getInfo called by the holder: the cached record is returned at once,
\* else the extraction starts
getInfo ==
    /\ userState = "live"
    /\ IF isCached
       THEN UNCHANGED task
       ELSE NumInFlight < MaxTasks /\ StartTask("caller")
    /\ cleared' = IF cleared = "cleared" THEN "rerun" ELSE cleared
    /\ UNCHANGED <<sessionVars, callVars, userState, username, doc, gen, reloading,
                   info, infoGen, numVars>>

\* User.clearCache
clearCache ==
    /\ userState = "live"
    /\ info' = infoCleared
    /\ cleared' = "cleared"
    /\ UNCHANGED <<sessionVars, callVars, userState, username, doc, gen, reloading,
                   infoGen, task, numVars>>

\* ------------------------------------------------------------ cleanNum, applied

ApplyCleanNum ==
    /\ numPc = "called"
    /\ numOut' = cleanNum(numIn)
    /\ numPc' = IF cleanNumRaises(numIn) THEN "threw" ELSE "returned"
    /\ UNCHANGED <<numIn, sessionVars, callVars, userVars>>

\* loadInfo's extraction, applied to the held page in one step
Extract ==
    /\ info = Undefined
    /\ info' = makeInfo(evaluate(doc).raw, username)
    /\ doc' = evaluate(doc).doc
    /\ UNCHANGED <<sessionVars, callVars, userState, username, gen, reloading,
                   infoGen, task, cleared, numVars>>

\* ------------------------------------------------------------ specifications

SeqsUpTo(S, n) == UNION {[1..k -> S] : k \in 0..n}

SessionInit ==
    /\ browser = FALSE
    /\ authenticated = FALSE
    /\ launchPc = "idle"
    /\ loginDoc = [email |-> FALSE, pass |-> FALSE, button |-> FALSE, nav |-> FALSE]
    /\ getUserPc = "idle"
    /\ getUserRet = "none"
    /\ getPostPc = "idle"
    /\ getPostRet = "none"

NumIdle ==
    /\ numIn = Null
    /\ numOut = 0
    /\ numPc = "idle"

\* a session as its constructor leaves it; no entity yet
Init ==
    /\ SessionInit
    /\ userState = "none"
    /\ username = "alice"
    /\ doc = BlankDoc
    /\ gen = 0
    /\ reloading = FALSE
    /\ info = Undefined
    /\ infoGen = 0
    /\ task = [t \in Tasks |-> IdleTask]
    /\ cleared = "no"
    /\ NumIdle

Next ==
    \/ launch
    \/ LaunchResolved
    \/ LoginPageReady
    \/ EmailWaitDone
    \/ LoginWaitDone
    \/ NavigationDone
    \/ LoginPageClosed
    \/ getPost
    \/ GetPostPageReady
    \/ \E u \in Usernames : getUser(u)
    \/ GetUserPageReady
    \/ loadInfo
    \/ reload
    \/ ReloadSettled
    \/ \E t \in Tasks : WaitResolved(t)
    \/ \E t \in Tasks : WaitTimedOut(t)
    \/ \E t \in Tasks : EvalReturned(t)
    \/ \E t \in Tasks : Assign(t)

Spec == Init /\ [][Next]_vars

\* the session on its own: launch() at any time it is not running, authenticate
\* also called directly, getUser and getPost; the entity getUser makes is not
\* used further
NextAuth ==
    \/ launch
    \/ relaunch
    \/ authenticate
    \/ LaunchResolved
    \/ LoginPageReady
    \/ EmailWaitDone
    \/ LoginWaitDone
    \/ NavigationDone
    \/ LoginPageClosed
    \/ getPost
    \/ GetPostPageReady
    \/ \E u \in Usernames : getUser(u)
    \/ GetUserPageReady
    \/ \E t \in Tasks : WaitResolved(t)
    \/ \E t \in Tasks : WaitTimedOut(t)
    \/ \E t \in Tasks : EvalReturned(t)
    \/ \E t \in Tasks : Assign(t)

SpecAuth == Init /\ [][NextAuth]_vars

\* the User as first written (getInfo, clearCache), constructed on a page by
\* the caller; info starts null
InitOld ==
    /\ SessionInit
    /\ userState = "live"
    /\ username \in Usernames
    /\ doc \in Docs
    /\ gen = 0
    /\ reloading = FALSE
    /\ info = Null
    /\ infoGen = 0
    /\ task = [t \in Tasks |-> IdleTask]
    /\ cleared = "no"
    /\ NumIdle

NextOld ==
    \/ getInfo
    \/ clearCache
    \/ \E t \in Tasks : WaitResolved(t)
    \/ \E t \in Tasks : WaitTimedOut(t)
    \/ \E t \in Tasks : EvalReturned(t)
    \/ \E t \in Tasks : Assign(t)

SpecOld == InitOld /\ [][NextOld]_vars

\* the characters of the count strings tried
NumChars == {"0", "1", "7", ",", "a", " ", "-"}

NumInputs == {Null, Undefined} \cup {Str(s) : s \in SeqsUpTo(NumChars, MaxLen)}

InitNum ==
    /\ SessionInit
    /\ userState = "none"
    /\ username = "alice"
    /\ doc = BlankDoc
    /\ gen = 0
    /\ reloading = FALSE
    /\ info = Undefined
    /\ infoGen = 0
    /\ task = [t \in Tasks |-> IdleTask]
    /\ cleared = "no"
    /\ numIn \in NumInputs
    /\ numOut = 0
    /\ numPc = "called"

NextNum == ApplyCleanNum

SpecNum == InitNum /\ [][NextNum]_vars

\* the header anchors tried: placeholder, /followers/ and /following/ links,
\* labelled "followers" or "following", with or without a nested count
AnchorKinds ==
    {Anchor(h, <<"7", w>>, v, v) :
        h \in {<<"#">>, <<"", "alice", "followers", "">>,
               <<"", "alice", "following", "">>},
        w \in {"followers", "following"},
        v \in {Undefined, Str(Chars("7")), Str(Chars("42"))}}

GenDocs ==
    {[PublicDoc EXCEPT !.tablist = tl, !.h2 = h, !.anchors = as] :
        tl \in BOOLEAN,
        h \in {Null, Str("alice")},
        as \in SeqsUpTo(AnchorKinds, MaxAnchors)}

InitExtract ==
    /\ SessionInit
    /\ userState = "live"
    /\ username \in Usernames
    /\ doc \in GenDocs
    /\ gen = 0
    /\ reloading = FALSE
    /\ info = Undefined
    /\ infoGen = 0
    /\ task = [t \in Tasks |-> IdleTask]
    /\ cleared = "no"
    /\ NumIdle

NextExtract == Extract

SpecExtract == InitExtract /\ [][NextExtract]_vars

\* ------------------------------------------------------------ claims

\* s is made only of decimal digits and commas, with a digit among them
IsCountString(num) ==
    /\ num.t = "string"
    /\ \A i \in DOMAIN num.s : num.s[i] \in Digits \cup {","}
    /\ \E i \in DOMAIN num.s : num.s[i] \in Digits

\* C1: for every count string made only of digits and thousands separators
\* (those of value 0 included), cleanNum returns the integer value of the
\* string with the separators removed.
C1_CountValue ==
    (numPc = "returned" /\ IsCountString(numIn))
        => numOut = digitsValue(SelectSeq(numIn.s, LAMBDA c : c # ","))

\* the input is absent, empty, or a string that, commas dropped and leading
\* spaces skipped, does not begin with a digit or a signed digit
NoLeadingNumber(num) ==
    \/ num.t # "string"
    \/ LET noCommas == SelectSeq(num.s, LAMBDA c : c # ",")
           lead == IF \E i \in DOMAIN noCommas : noCommas[i] # " "
                   THEN CHOOSE i \in DOMAIN noCommas :
                            /\ noCommas[i] # " "
                            /\ \A j \in 1..(i - 1) : noCommas[j] = " "
                   ELSE 0
       IN  \/ lead = 0
           \/ /\ noCommas[lead] \notin Digits
              /\ ~ /\ noCommas[lead] \in {"-", "+"}
                   /\ lead < Len(noCommas)
                   /\ noCommas[lead + 1] \in Digits

\* C2: cleanNum is total: it never raises, and for an absent input, the empty
\* string or a string with no leading numeric part it returns -1.
C2_TotalSentinel ==
    /\ numPc # "threw"
    /\ (numPc = "returned" /\ NoLeadingNumber(numIn)) => numOut = -1

C2_Witness ==
    /\ numPc = "returned"
    /\ numIn = Str(<<"a">>)
    /\ numOut = -1

\* C3: while the browser is not launched or the session is not authenticated,
\* getUser and getPost return null at once: no page is asked for, no entity
\* is made, nothing is raised.
C3_UnavailableReturnsNull ==
    [][~(browser /\ authenticated) =>
          /\ (\E u \in Usernames : getUser(u)) =>
                /\ getUserRet' = "null"
                /\ getUserPc' = "idle"
                /\ userState' = userState
                /\ task' = task
          /\ getPost =>
                /\ getPostRet' = "null"
                /\ getPostPc' = "idle"]_vars

C3_Witness ==
    /\ browser
    /\ ~authenticated
    /\ getUserRet = "null"
    /\ getPostRet = "null"

\* C4: once the entity holds a cached record, a further loadInfo call does not
\* run the extraction again (no wait, no evaluation) and leaves the record.
C4_CachedLoadSkipsExtraction ==
    [][(loadInfo /\ info # Undefined) => (task' = task /\ info' = info)]_vars

\* C5: after a reload() has completed, the entity (through its getters) is
\* either unloaded or holds a record extracted from the page as reloaded,
\* never a record of an earlier page generation.
C5_ReloadInvalidates ==
    (gen > 0 /\ getUsername # Undefined) => infoGen = gen

C7_TimeoutLeavesNoRecord ==
    [][\A t \in Tasks :
          (task[t].pc = "wait" /\ task'[t].pc = "timeout") =>
              /\ task'[t].raw = Null
              /\ \A s \in Tasks \ {t} : task'[s] = task[s]
              /\ info' = Undefined]_vars

\* C8: on a launched, authenticated session getPost does not fail: the call
\* that opened the post page ends by returning the Post entity.
C8_GetPostReturnsPost ==
    [][GetPostPageReady => getPostRet' = "post"]_vars

\* the anchors of the branch the privacy flag selects
BranchAnchors(d) ==
    SelectSeq(d.anchors,
              LAMBDA a : IF d.tablist THEN a.href # <<"#">> ELSE a.href = <<"#">>)

\* the count text the selected branch alone gives for a label
BranchText(d, label, field) ==
    LET as == BranchAnchors(d)
        hit == SelectSeq(as, LAMBDA a :
                  IF d.tablist
                  THEN Len(a.href) >= 3 /\ a.href[Len(a.href)] = ""
                       /\ a.href[Len(a.href) - 1] = label
                  ELSE \E i \in DOMAIN a.text : a.text[i] = label)
    IN  IF hit = <<>> THEN Undefined ELSE hit[1][field]

\* C9: the privacy flag is true exactly when the document has no tablist,
\* and the follower / following counts come from the anchors of the branch
\* the flag selects alone: placeholder anchors labelled "followers" /
\* "following" when private, /followers/ and /following/ links when public.
C9_PrivacySelectsBranch ==
    info # Undefined =>
        /\ info.private = ~doc.tablist
        /\ info.followers = cleanNum(BranchText(doc, "followers", "title"))
        /\ info.following = cleanNum(BranchText(doc, "following", "inner"))

C9_Witness ==
    /\ info # Undefined
    /\ info.private
    /\ info.followers = 7
    /\ \E i \in DOMAIN doc.anchors :
          /\ HrefEndsWith(doc.anchors[i], "followers")
          /\ doc.anchors[i].title = Str(Chars("42"))
          /\ \A j \in DOMAIN doc.anchors : j >= i

\* C10: a loadInfo that ends on a document unchanged since the cached record
\* was extracted stores a record equal to it in every field, and the
\* evaluation leaves the live document as it was.
C10_Idempotent ==
    [][\A t \in Tasks :
          /\ (task[t].pc = "eval" /\ task'[t].pc = "got") => doc' = doc
          /\ (/\ task[t].pc = "got" /\ task'[t].pc = "ok"
              /\ info # Undefined /\ infoGen = task[t].gen) => info' = info]_vars

C10_Witness ==
    /\ userState = "live"
    /\ gen = 0
    /\ info # Undefined
    /\ info.bio = Str("click here\nbye")
    /\ \E t \in Tasks : task[t].pc = "ok" /\ task[t].by = "caller"

\* C11: a per-entity in-flight guard makes a loadInfo issued while another
\* call on the entity is still suspended await that call: no second
\* extraction is started (by the caller or by reload()), so the two calls
\* run one extraction and write this.info once.
C11_InFlightGuard ==
    [][\A t \in Tasks :
          (task[t].pc # "wait" /\ task'[t].pc = "wait") => NumInFlight = 0]_vars

\* the fields of a profile record
FieldNames ==
    {"username", "name", "private", "verified", "avatarUrl", "bio", "pronouns",
     "posts", "followers", "following"}

\* i is one complete record: every field present, the counts integers, the
\* flags booleans, the avatar URL and the username strings, the rest a
\* string or null
CompleteRecord(i) ==
    /\ DOMAIN i = FieldNames
    /\ i.username.t = "string"
    /\ i.avatarUrl.t = "string"
    /\ i.private \in BOOLEAN
    /\ i.verified \in BOOLEAN
    /\ \A f \in {"name", "bio", "pronouns"} : i[f].t \in {"string", "null"}
    /\ \A f \in {"posts", "followers", "following"} : i[f] \in Int

C13_SessionLifecycle ==
    /\ [](authenticated => browser)
    /\ [][/\ (~authenticated /\ authenticated') =>
                /\ launchPc = "closing" /\ launchPc' = "done"
                /\ browser
                /\ loginDoc.email /\ loginDoc.button /\ loginDoc.nav
          /\ (authenticate /\ ~browser) =>
                /\ launchPc' = "returned"
                /\ ~authenticated'
                /\ UNCHANGED <<browser, loginDoc, callVars, userVars>>
          /\ (~authenticated /\ launchPc' = "failed") => ~authenticated'
          /\ (~authenticated /\ \E u \in Usernames : getUser(u)) =>
                getUserRet' = "null"
          /\ (~authenticated /\ getPost) => getPostRet' = "null"]_vars

C13_Witness ==
    /\ launchPc = "failed"
    /\ browser
    /\ ~authenticated
    /\ loginDoc.email /\ loginDoc.pass /\ ~loginDoc.button
    /\ getUserRet = "null"
    /\ getPostRet = "null"

====
